---- MODULE Spec2Model ----
(***************************************************************************)
(* Model of the Emaux SPV pool pump client (src/src/api.py): the static    *)
(* parameter table VALID_PARAMETERS, the seven operations of class API,    *)
(* the two record decoders EmauxPumpData.from_dict and                     *)
(* EmauxPumpSettings.from_dict, and the aiohttp transport they call.       *)
(*                                                                         *)
(* A call runs in two steps, split at its await on the transport: the      *)
(* operation's action (validation, URL construction, the request), then    *)
(* either Deliver (the transport hands over a response and the rest of the *)
(* body of the operation runs) or TransportFailure (the transport raises). *)
(* Return hands the outcome to the caller.                                 *)
(***************************************************************************)
EXTENDS Integers, Sequences, FiniteSets, TLC

VARIABLES host, api_url, timeout, pc, call, sent, response, result

vars == <<host, api_url, timeout, pc, call, sent, response, result>>

-----------------------------------------------------------------------------
(* Bounds of the model. *)

\* utc_now() is drawn from 0..MaxTime.
MaxTime == 1

\* Decimal strings that int() is asked to parse denote 0..MaxWireInt.
MaxWireInt == 24

\* Default of the timeout argument of API.__init__.
DefaultTimeout == 5

Hosts == {"192.168.1.54", "pump.local"}

Timeouts == {DefaultTimeout, 2 * DefaultTimeout}

-----------------------------------------------------------------------------
(* Python / JSON values: int, float (n holds ten times the value, one      *)
(* decimal digit) and str.                                                 *)

IntV(i) == [t |-> "int", n |-> i, s |-> ""]

FloatV(tenths) == [t |-> "float", n |-> tenths, s |-> ""]

StrV(x) == [t |-> "str", n |-> 0, s |-> x]

IsNumber(v) == v.t \in {"int", "float"}

\* Ten times the numeric value of a number.
Tenths(v) == IF v.t = "int" THEN 10 * v.n ELSE v.n

\* Python's == on values: numbers compare by value across int and float,
\* strings compare with strings, a number never equals a string.
PyEq(a, b) ==
    IF IsNumber(a) /\ IsNumber(b) THEN Tenths(a) = Tenths(b)
    ELSE a.t = "str" /\ b.t = "str" /\ a.s = b.s

\* Python's == on dicts: the same keys, equal values under each key.
DictEq(d, e) ==
    /\ DOMAIN d = DOMAIN e
    /\ \A k \in DOMAIN d : PyEq(d[k], e[k])

\* str(value) as an f-string renders it (nonnegative floats only).
Format(v) ==
    CASE v.t = "int" -> ToString(v.n)
      [] v.t = "float" -> ToString(v.n \div 10) \o "." \o ToString(v.n % 10)
      [] OTHER -> v.s

-----------------------------------------------------------------------------
(* The parameter table.  A domain is what the table's value is in Python:  *)
(* a 2-tuple, None, a set of strings, or (for "Language") the int 0,       *)
(* because (0) is a parenthesised int and not a tuple.                     *)

Tuple(lo, hi) == [type |-> "tuple", min |-> lo, max |-> hi, tokens |-> {}]

None == [type |-> "NoneType", min |-> 0, max |-> 0, tokens |-> {}]

BareInt(i) == [type |-> "int", min |-> i, max |-> i, tokens |-> {}]

TokenSet(S) == [type |-> "set", min |-> 0, max |-> 0, tokens |-> S]

VALID_PARAMETERS ==
    "RunStop" :> Tuple(1, 2) @@
    "SetCurrentSpeed" :> Tuple(800, 3400) @@
    "SetSpeedSelected" :> Tuple(1, 4) @@
    "Speed1" :> Tuple(800, 3400) @@
    "Speed2" :> Tuple(800, 3400) @@
    "Speed3" :> Tuple(800, 3400) @@
    "Speed4" :> Tuple(800, 3400) @@
    "Speed1Title" :> None @@
    "Speed2Title" :> None @@
    "Speed3Title" :> None @@
    "Speed4Title" :> None @@
    "Sch1En" :> Tuple(0, 1) @@
    "Sch2En" :> Tuple(0, 1) @@
    "Sch3En" :> Tuple(0, 1) @@
    "Sch4En" :> Tuple(0, 1) @@
    "Sch1TimeOnHour" :> Tuple(0, 23) @@
    "Sch2TimeOnHour" :> Tuple(0, 23) @@
    "Sch3TimeOnHour" :> Tuple(0, 23) @@
    "Sch4TimeOnHour" :> Tuple(0, 23) @@
    "Sch1TimeOnMin" :> Tuple(0, 59) @@
    "Sch2TimeOnMin" :> Tuple(0, 59) @@
    "Sch3TimeOnMin" :> Tuple(0, 59) @@
    "Sch4TimeOnMin" :> Tuple(0, 59) @@
    "Sch1TimeOffHour" :> Tuple(0, 23) @@
    "Sch2TimeOffHour" :> Tuple(0, 23) @@
    "Sch3TimeOffHour" :> Tuple(0, 23) @@
    "Sch4TimeOffHour" :> Tuple(0, 23) @@
    "Sch1TimeOffMin" :> Tuple(0, 59) @@
    "Sch2TimeOffMin" :> Tuple(0, 59) @@
    "Sch3TimeOffMin" :> Tuple(0, 59) @@
    "Sch4TimeOffMin" :> Tuple(0, 59) @@
    "Sch1SpeedSelect" :> Tuple(1, 4) @@
    "Sch2SpeedSelect" :> Tuple(1, 4) @@
    "Sch3SpeedSelect" :> Tuple(1, 4) @@
    "Sch4SpeedSelect" :> Tuple(1, 4) @@
    "SchTitle1" :> None @@
    "SchTitle2" :> None @@
    "SchTitle3" :> None @@
    "SchTitle4" :> None @@
    "Frozen_Enable" :> Tuple(0, 1) @@
    "Frozen_LastingTime" :> Tuple(1, 12) @@
    "Frozen_Speed" :> Tuple(1200, 3450) @@
    "Frozen_Temperature" :> Tuple(2, 10) @@
    "Language" :> BareInt(0) @@
    "LangSel" :> TokenSet({"en", "cn", "fr", "de", "es", "it", "ru"}) @@
    "WifiSetToDefault" :> Tuple(0, 1) @@
    "Reset" :> Tuple(0, 1)

\* Names a caller passes: every registered name and two that are not.
Names == DOMAIN VALID_PARAMETERS \cup {"Bogus", "AllRd"}

\* Integers a caller passes: each bound of the table, its two neighbours,
\* and values far outside every range.
Bounds ==
    {VALID_PARAMETERS[p].min : p \in DOMAIN VALID_PARAMETERS} \cup
    {VALID_PARAMETERS[p].max : p \in DOMAIN VALID_PARAMETERS}

IntInputs ==
    UNION {{b - 1, b, b + 1} : b \in Bounds} \cup {1500, 5000}

\* Values a caller passes: ints, floats (1.5, 900.5) and strings.
Values ==
    {IntV(i) : i \in IntInputs} \cup
    {FloatV(15), FloatV(9005)} \cup
    {StrV("en"), StrV("EN"), StrV("Pool"), StrV("1")}

-----------------------------------------------------------------------------
(* Outcomes: a returned value or a raised exception.                       *)

Returns(v) == [kind |-> "return", exc |-> "", value |-> v]

Raises(e) == [kind |-> "raise", exc |-> e, value |-> FALSE]

NoResult == [kind |-> "none", exc |-> "", value |-> FALSE]

\* Validation that checks the name only.
ValidateNameOnly(name, value) ==
    IF name \notin DOMAIN VALID_PARAMETERS THEN "ValueError" ELSE "ok"

\* Validation whose range check excludes the two ends.
ValidateStrict(name, value) ==
    IF name \notin DOMAIN VALID_PARAMETERS THEN "ValueError"
    ELSE LET param_range == VALID_PARAMETERS[name] IN
         CASE param_range.type = "set" ->
                IF value.t = "str" /\ value.s \in param_range.tokens
                THEN "ok" ELSE "ValueError"
           [] param_range.type = "tuple" ->
                IF ~IsNumber(value) THEN "TypeError"
                ELSE IF 10 * param_range.min < Tenths(value)
                        /\ Tenths(value) < 10 * param_range.max
                     THEN "ok" ELSE "ValueError"
           [] param_range.type = "NoneType" ->
                IF value.t = "str" THEN "ok" ELSE "ValueError"
           [] OTHER -> "ValueError"

\* The validation of set_parameter: "ok", or the exception it ends with.
\* The table's value selects the branch by its Python type; the chained
\* comparison min <= value <= max raises TypeError on a str; a value that
\* is neither list, set, tuple nor None (the int of "Language") ends in
\* the final else.
Validate(name, value) ==
    IF name \notin DOMAIN VALID_PARAMETERS THEN "ValueError"
    ELSE LET param_range == VALID_PARAMETERS[name] IN
         CASE param_range.type = "set" ->
                IF value.t = "str" /\ value.s \in param_range.tokens
                THEN "ok" ELSE "ValueError"
           [] param_range.type = "tuple" ->
                IF ~IsNumber(value) THEN "TypeError"
                ELSE IF 10 * param_range.min <= Tenths(value)
                        /\ Tenths(value) <= 10 * param_range.max
                     THEN "ok" ELSE "ValueError"
           [] param_range.type = "NoneType" ->
                IF value.t = "str" THEN "ok" ELSE "ValueError"
           [] OTHER -> "ValueError"

-----------------------------------------------------------------------------
(* The record decoders.  A field is the wire key it is read under and the  *)
(* conversion applied: "raw" (data[key]), "int" (int(data[key])) or "flag" *)
(* (data[key] == "1").  Fields are listed in the order from_dict evaluates *)
(* them, so the first failing field decides the exception.                 *)

Field(key, conv) == [key |-> key, conv |-> conv]

\* Whether int() accepts the string: a decimal numeral of 0..MaxWireInt.
IsIntLiteral(s) == \E i \in 0..MaxWireInt : ToString(i) = s

\* int(v): an int is itself, a float is truncated, a str is parsed.
\* Returns -1 where int() raises ValueError; wire integers are nonnegative.
IntOf(v) ==
    CASE v.t = "int" -> v.n
      [] v.t = "float" -> v.n \div 10
      [] OTHER -> IF IsIntLiteral(v.s)
                  THEN CHOOSE i \in 0..MaxWireInt : ToString(i) = v.s
                  ELSE -1

\* Reading a field that reports a missing key only.
FieldErrorKeyOnly(f, data) ==
    IF f.key \notin DOMAIN data THEN "KeyError" ELSE ""

\* The exception reading one field raises, "" when it raises none.
FieldError(f, data) ==
    IF f.key \notin DOMAIN data THEN "KeyError"
    ELSE IF f.conv = "int" /\ IntOf(data[f.key]) = -1 THEN "ValueError"
    ELSE ""

\* The value one field is decoded to.
Convert(f, data) ==
    CASE f.conv = "int" -> IntOf(data[f.key])
      [] f.conv = "flag" -> PyEq(data[f.key], StrV("1"))
      [] OTHER -> data[f.key]

\* The first field, in evaluation order, whose reading raises; 0 if none.
FirstError(fields, data) ==
    LET bad == {i \in 1..Len(fields) : FieldError(fields[i], data) # ""}
    IN IF bad = {} THEN 0 ELSE CHOOSE i \in bad : \A j \in bad : i <= j

PumpDataFields ==
    << Field("CurrentTime", "raw"),
       Field("CurrentSpeed", "int"),
       Field("CurrentWatts", "int"),
       Field("RunningStatus", "flag"),
       Field("FaultFlag", "int"),
       Field("FaultCode", "raw"),
       Field("SpeedSelected", "int"),
       Field("CurrentTemperuture", "int"),
       Field("FreeModeStatus", "flag"),
       Field("CurrentSchedule", "int"),
       Field("CurrentGPM", "int"),
       Field("SpeedCount", "int"),
       Field("ScheduleCount", "int"),
       Field("Model", "raw") >>

\* EmauxPumpData.from_dict.
EmauxPumpData_from_dict(data) ==
    LET F == PumpDataFields
        e == FirstError(F, data)
    IN IF e # 0 THEN Raises(FieldError(F[e], data))
       ELSE Returns(
         [ current_time |-> Convert(F[1], data),
           current_speed |-> Convert(F[2], data),
           current_watts |-> Convert(F[3], data),
           running_status |-> Convert(F[4], data),
           fault_flag |-> Convert(F[5], data),
           fault_code |-> Convert(F[6], data),
           speed_selected |-> Convert(F[7], data),
           current_temperature |-> Convert(F[8], data),
           free_mode_status |-> Convert(F[9], data),
           current_schedule |-> Convert(F[10], data),
           current_gpm |-> Convert(F[11], data),
           speed_count |-> Convert(F[12], data),
           schedule_count |-> Convert(F[13], data),
           model |-> Convert(F[14], data) ])

\* The keys of schedule i, f"Sch{i}En" and so on, in the order read.
ScheduleFields(i) ==
    << Field("Sch" \o ToString(i) \o "En", "flag"),
       Field("Sch" \o ToString(i) \o "TimeOnHour", "int"),
       Field("Sch" \o ToString(i) \o "TimeOnMin", "int"),
       Field("Sch" \o ToString(i) \o "TimeOffHour", "int"),
       Field("Sch" \o ToString(i) \o "TimeOffMin", "int"),
       Field("Sch" \o ToString(i) \o "SpeedSelect", "int"),
       Field("SchTitle" \o ToString(i), "raw") >>

SpeedFields ==
    << Field("Speed1", "int"), Field("Speed2", "int"),
       Field("Speed3", "int"), Field("Speed4", "int") >>

SpeedTitleFields ==
    << Field("Speed1Title", "raw"), Field("Speed2Title", "raw"),
       Field("Speed3Title", "raw"), Field("Speed4Title", "raw") >>

SettingsTailFields ==
    << Field("CurrentMin", "int"),
       Field("CurrentHour", "int"),
       Field("RunStop", "flag"),
       Field("SetCurrentSpeed", "int"),
       Field("SetSpeedSelected", "int"),
       Field("Language", "int"),
       Field("LangSel", "raw"),
       Field("Frozen_Enable", "flag"),
       Field("Frozen_LastingTime", "int"),
       Field("Frozen_Speed", "int"),
       Field("Frozen_Temperature", "int"),
       Field("WifiSetToDefault", "flag"),
       Field("Reset", "flag") >>

\* Every key EmauxPumpSettings.from_dict reads, in the order it reads them.
PumpSettingsFields ==
    SpeedFields \o SpeedTitleFields \o ScheduleFields(1) \o ScheduleFields(2)
        \o ScheduleFields(3) \o ScheduleFields(4) \o SettingsTailFields

\* One Schedule record, built from the keys of slot i.
Schedule(i, data) ==
    LET S == ScheduleFields(i)
    IN [ enabled |-> Convert(S[1], data),
         time_on_hour |-> Convert(S[2], data),
         time_on_min |-> Convert(S[3], data),
         time_off_hour |-> Convert(S[4], data),
         time_off_min |-> Convert(S[5], data),
         speed_select |-> Convert(S[6], data),
         title |-> Convert(S[7], data) ]

\* EmauxPumpSettings.from_dict.
EmauxPumpSettings_from_dict(data) ==
    LET F == PumpSettingsFields
        T == SettingsTailFields
        e == FirstError(F, data)
    IN IF e # 0 THEN Raises(FieldError(F[e], data))
       ELSE Returns(
         [ current_min |-> Convert(T[1], data),
           current_hour |-> Convert(T[2], data),
           run_stop |-> Convert(T[3], data),
           set_current_speed |-> Convert(T[4], data),
           set_speed_selected |-> Convert(T[5], data),
           speeds |-> [i \in 1..4 |-> Convert(SpeedFields[i], data)],
           speed_titles |-> [i \in 1..4 |-> Convert(SpeedTitleFields[i], data)],
           schedules |-> [i \in 1..4 |-> Schedule(i, data)],
           language |-> Convert(T[6], data),
           lang_sel |-> Convert(T[7], data),
           frozen_enable |-> Convert(T[8], data),
           frozen_lasting_time |-> Convert(T[9], data),
           frozen_speed |-> Convert(T[10], data),
           frozen_temperature |-> Convert(T[11], data),
           wifi_set_to_default |-> Convert(T[12], data),
           reset |-> Convert(T[13], data) ])

-----------------------------------------------------------------------------
(* The transport (aiohttp) as the operations see it.                       *)

\* Exceptions of the transport that derive from aiohttp.ClientError:
\* refused connection, DNS failure, a malformed HTTP response, a dropped
\* connection, and ContentTypeError of response.json().
ClientError ==
    {"ClientConnectorError", "ClientConnectorDNSError", "ClientResponseError",
     "ServerDisconnectedError", "ContentTypeError"}

\* What the request can raise instead of delivering a response.  Expiry of
\* ClientTimeout(total=...) raises asyncio.TimeoutError, which does not
\* derive from aiohttp.ClientError.
TransportExceptions ==
    {"ClientConnectorError", "ClientConnectorDNSError", "ClientResponseError",
     "ServerDisconnectedError", "TimeoutError"}

\* The except clause of every operation: an aiohttp.ClientError is replaced
\* by APIConnectionError, any other exception propagates unchanged.
Except(outcome) ==
    IF outcome.kind = "raise" /\ outcome.exc \in ClientError
    THEN Raises("APIConnectionError")
    ELSE outcome

\* await response.json(): the decoded body, or the exception of decoding
\* (ContentTypeError for a non-JSON content type, JSONDecodeError for a
\* body that is not JSON).
Response(status, decode, json) ==
    [status |-> status, decode |-> decode, json |-> json]

NoResponse == Response(0, "", <<>>)

Statuses == {200, 404, 500}

DecodeErrors == {"ContentTypeError", "JSONDecodeError"}

-----------------------------------------------------------------------------
(* Requests.                                                               *)

\* The f-string every operation builds.
Url(base, name, val, type, now) ==
    base \o "?name=" \o name \o "&val=" \o val \o "&type=" \o type
         \o "&time=" \o ToString(now)

Request(method, url) == [method |-> method, url |-> url]

Call(op, name, value) == [op |-> op, name |-> name, value |-> value]

NoCall == Call("", "", IntV(0))

-----------------------------------------------------------------------------
(* The part of each operation that runs once the response is there, before *)
(* its except clause.                                                      *)

\* return EmauxPumpData.from_dict(await response.json())
get_data_body(resp) ==
    IF resp.decode # "ok" THEN Raises(resp.decode)
    ELSE EmauxPumpData_from_dict(resp.json)

\* return EmauxPumpSettings.from_dict(await response.json())
get_settings_body(resp) ==
    IF resp.decode # "ok" THEN Raises(resp.decode)
    ELSE EmauxPumpSettings_from_dict(resp.json)

\* return await response.json()
get_parameter_body(resp) ==
    IF resp.decode # "ok" THEN Raises(resp.decode)
    ELSE Returns(resp.json)

\* The echo test without the status test.
EchoIgnoringStatus(resp, expected) ==
    IF resp.decode # "ok" THEN Raises(resp.decode)
    ELSE Returns(DictEq(resp.json, expected))

\* (response.status == 200) and (await response.json() == expected): the
\* body is decoded only when the status is 200.
Echo(resp, expected) ==
    IF resp.status # 200 THEN Returns(FALSE)
    ELSE IF resp.decode # "ok" THEN Raises(resp.decode)
    ELSE Returns(DictEq(resp.json, expected))

set_speed_body(speed, resp) == Echo(resp, "SetCurrentSpeed" :> speed)

turn_on_body(resp) == Echo(resp, "RunStop" :> IntV(1))

turn_off_body(resp) == Echo(resp, "RunStop" :> IntV(2))

set_parameter_body(name, value, resp) == Echo(resp, name :> value)

\* The outcome of the call c on the response resp.
OnResponse(c, resp) ==
    Except(CASE c.op = "get_data" -> get_data_body(resp)
             [] c.op = "get_settings" -> get_settings_body(resp)
             [] c.op = "get_parameter" -> get_parameter_body(resp)
             [] c.op = "set_speed" -> set_speed_body(c.value, resp)
             [] c.op = "turn_on" -> turn_on_body(resp)
             [] c.op = "turn_off" -> turn_off_body(resp)
             [] OTHER -> set_parameter_body(c.name, c.value, resp))

\* A failure handler that issues the request once more.
OnFailureRetry(requests) == requests \o requests

\* The requests of a call after the transport raised: the except clause
\* raises and issues nothing.
OnFailure(requests) == requests

-----------------------------------------------------------------------------
(* Bodies the device answers with.                                         *)

\* A value that differs from v.
Other(v) == IF v.t = "str" THEN StrV(v.s \o "x") ELSE IntV(v.n + 1)

\* The same number in the other numeric type, or the number as a string.
Alike(v) ==
    CASE v.t = "int" -> {FloatV(10 * v.n), StrV(ToString(v.n))}
      [] v.t = "float" /\ v.n % 10 = 0 -> {IntV(v.n \div 10)}
      [] OTHER -> {}

\* Bodies answering a set of name to v: the echo, a different value, the
\* same value under another key, an extra key, no key.
EchoBodies(name, v) ==
    {name :> v, name :> Other(v), "Status" :> v,
     (name :> v) @@ ("Status" :> v), <<>>}
      \cup {name :> w : w \in Alike(v)}

\* The wire value of field i of a well-formed payload: integers and flags
\* as strings.
WireValue(f, i) ==
    CASE f.conv = "int" -> StrV(ToString(i % (MaxWireInt + 1)))
      [] f.conv = "flag" -> StrV(ToString(i % 2))
      [] OTHER -> StrV("t" \o ToString(i))

WellFormed(fields) ==
    [k \in {fields[i].key : i \in 1..Len(fields)} |->
        LET i == CHOOSE j \in 1..Len(fields) : fields[j].key = k
        IN WireValue(fields[i], i)]

\* What a device may put in place of a well-formed wire value.
Defects == {StrV("abc"), StrV("1.5"), StrV(""), StrV("1"), IntV(7)}

Without(data, k) == [x \in DOMAIN data \ {k} |-> data[x]]

\* Payloads for a decoder: the well-formed one, and each one that differs
\* from it in one key, which is missing or holds a defect.
Payloads(fields) ==
    LET good == WellFormed(fields)
    IN {good}
         \cup {Without(good, k) : k \in DOMAIN good}
         \cup {[good EXCEPT ![k] = d] : k \in DOMAIN good, d \in Defects}

\* Names read with get_parameter.
ReadNames == {"RunStop", "LangSel", "Bogus"}

\* The decoded bodies the device may answer the call c with.
Bodies(c) ==
    CASE c.op = "get_data" -> Payloads(PumpDataFields)
      [] c.op = "get_settings" -> Payloads(PumpSettingsFields)
      [] c.op = "get_parameter" -> {c.name :> StrV("1"), <<>>}
      [] OTHER -> EchoBodies(c.name, c.value)

Responses(c) ==
    {Response(st, "ok", b) : st \in Statuses, b \in Bodies(c)}
      \cup {Response(st, e, <<>>) : st \in Statuses, e \in DecodeErrors}

-----------------------------------------------------------------------------
(* The client.                                                             *)

Init ==
    /\ host \in Hosts
    /\ api_url = "http://" \o host \o "/cgi-bin/EpvCgi"
    /\ timeout \in Timeouts
    /\ pc = "idle"
    /\ call = NoCall
    /\ sent = <<>>
    /\ response = NoResponse
    /\ result = NoResult

\* The call c issues its one request and awaits the transport.
Issue(c, req) ==
    /\ pc = "idle"
    /\ pc' = "awaiting"
    /\ call' = c
    /\ sent' = <<req>>
    /\ UNCHANGED <<host, api_url, timeout, response, result>>

get_data(now) ==
    Issue(Call("get_data", "AllRd", IntV(0)),
          Request("GET", Url(api_url, "AllRd", "0", "get", now)))

\* set_speed with the registry's validation in front of the request.
set_speed_checked(speed, now) ==
    /\ pc = "idle"
    /\ IF Validate("SetCurrentSpeed", speed) # "ok"
       THEN /\ pc' = "done"
            /\ call' = Call("set_speed", "SetCurrentSpeed", speed)
            /\ sent' = <<>>
            /\ result' = Raises(Validate("SetCurrentSpeed", speed))
            /\ UNCHANGED <<host, api_url, timeout, response>>
       ELSE Issue(Call("set_speed", "SetCurrentSpeed", speed),
                  Request("POST", Url(api_url, "SetCurrentSpeed", Format(speed), "set", now)))

set_speed(speed, now) ==
    Issue(Call("set_speed", "SetCurrentSpeed", speed),
          Request("POST", Url(api_url, "SetCurrentSpeed", Format(speed), "set", now)))

turn_on(now) ==
    Issue(Call("turn_on", "RunStop", IntV(1)),
          Request("GET", Url(api_url, "RunStop", "1", "set", now)))

turn_off(now) ==
    Issue(Call("turn_off", "RunStop", IntV(2)),
          Request("GET", Url(api_url, "RunStop", "2", "set", now)))

get_settings(now) ==
    Issue(Call("get_settings", "AllWr", IntV(0)),
          Request("GET", Url(api_url, "AllWr", "0", "get", now)))

set_parameter(name, value, now) ==
    /\ pc = "idle"
    /\ IF Validate(name, value) # "ok"
       THEN /\ pc' = "done"
            /\ call' = Call("set_parameter", name, value)
            /\ sent' = <<>>
            /\ result' = Raises(Validate(name, value))
            /\ UNCHANGED <<host, api_url, timeout, response>>
       ELSE Issue(Call("set_parameter", name, value),
                  Request("POST", Url(api_url, name, Format(value), "set", now)))

get_parameter(name, now) ==
    Issue(Call("get_parameter", name, IntV(0)),
          Request("GET", Url(api_url, name, "0", "get", now)))

\* The transport delivers a response; the rest of the operation runs.
Deliver ==
    /\ pc = "awaiting"
    /\ \E resp \in Responses(call) :
         /\ response' = resp
         /\ result' = OnResponse(call, resp)
    /\ pc' = "done"
    /\ UNCHANGED <<host, api_url, timeout, call, sent>>

\* The transport raises; the except clause of the operation runs.
TransportFailure(exc) ==
    /\ pc = "awaiting"
    /\ pc' = "done"
    /\ result' = Except(Raises(exc))
    /\ sent' = OnFailure(sent)
    /\ UNCHANGED <<host, api_url, timeout, call, response>>

\* The caller receives the outcome; the client is ready for the next call.
Return ==
    /\ pc = "done"
    /\ pc' = "idle"
    /\ call' = NoCall
    /\ sent' = <<>>
    /\ response' = NoResponse
    /\ result' = NoResult
    /\ UNCHANGED <<host, api_url, timeout>>

Next ==
    \/ \E now \in 0..MaxTime : get_data(now)
    \/ \E v \in Values, now \in 0..MaxTime : set_speed(v, now)
    \/ \E now \in 0..MaxTime : turn_on(now)
    \/ \E now \in 0..MaxTime : turn_off(now)
    \/ \E now \in 0..MaxTime : get_settings(now)
    \/ \E n \in Names, v \in Values, now \in 0..MaxTime : set_parameter(n, v, now)
    \/ \E n \in ReadNames, now \in 0..MaxTime : get_parameter(n, now)
    \/ Deliver
    \/ \E exc \in TransportExceptions : TransportFailure(exc)
    \/ Return

Spec == Init /\ [][Next]_vars

-----------------------------------------------------------------------------
(* Properties.                                                             *)

SetOps == {"set_speed", "turn_on", "turn_off", "set_parameter"}

ReadOps == {"get_data", "get_settings", "get_parameter"}

\* The exceptions the validation step of set_parameter ends with.
ValidationErrors == {"ValueError", "TypeError"}

Registered(name) == name \in DOMAIN VALID_PARAMETERS

\* The value lies outside the declared domain of the registered name: for
\* a range, not a number or a number below min or above max; for a token
\* set, not one of the tokens; for a free-form string, not a string; for
\* the single integer, not that integer.
OutsideDomain(name, value) ==
    LET d == VALID_PARAMETERS[name] IN
    CASE d.type = "tuple" ->
           \/ ~IsNumber(value)
           \/ Tenths(value) < 10 * d.min
           \/ Tenths(value) > 10 * d.max
      [] d.type = "set" -> value.t # "str" \/ value.s \notin d.tokens
      [] d.type = "NoneType" -> value.t # "str"
      [] OTHER -> ~(IsNumber(value) /\ Tenths(value) = 10 * d.min)

\* A set_parameter call is in progress or has ended.
InSetParameter == pc # "idle" /\ call.op = "set_parameter"

\* C1: a set_parameter call whose name is not registered, or whose value
\* lies outside the domain of the name, has ended with an exception of the
\* validation step, which is not APIConnectionError, and has issued no
\* request.
C1_ValidationBeforeRequest ==
    (InSetParameter
       /\ (~Registered(call.name) \/ OutsideDomain(call.name, call.value)))
    => /\ pc = "done"
       /\ result.kind = "raise"
       /\ result.exc \in ValidationErrors
       /\ result.exc # "APIConnectionError"
       /\ sent = <<>>
       /\ response = NoResponse

\* set_parameter("SetCurrentSpeed", 5000) has raised ValueError without a
\* request.
C1_Witness ==
    /\ pc = "done"
    /\ call = Call("set_parameter", "SetCurrentSpeed", IntV(5000))
    /\ result = Raises("ValueError")
    /\ sent = <<>>

\* The decoded body is the one-key object {name: value}; values are equal
\* as JSON values (1 and 1.0 are the same number).
IsEcho(json, name, value) ==
    /\ DOMAIN json = {name}
    /\ IF IsNumber(value)
       THEN IsNumber(json[name]) /\ Tenths(json[name]) = Tenths(value)
       ELSE json[name] = value

\* A set operation has ended on a response whose body, where the
\* operation read it, was decoded.
SetAnswered ==
    /\ pc = "done"
    /\ call.op \in SetOps
    /\ response # NoResponse
    /\ (response.status = 200 => response.decode = "ok")

\* C2: a set operation that ended on a delivered response returned true
\* if and only if the status is 200 and the body is the one-key object
\* {name: value sent}; on another status, or on a body that is not that
\* echo, it returned false and raised nothing.
C2_EchoConfirmation ==
    SetAnswered
    => /\ result.kind = "return"
       /\ result.value =
            (response.status = 200 /\ IsEcho(response.json, call.name, call.value))

\* set_speed(1500) answered 200 {"SetCurrentSpeed": 1500} returned true.
C2_Witness ==
    /\ pc = "done"
    /\ call = Call("set_speed", "SetCurrentSpeed", IntV(1500))
    /\ response = Response(200, "ok", "SetCurrentSpeed" :> IntV(1500))
    /\ result = Returns(TRUE)

\* C3: a call during which the transport failed (no response was
\* delivered) has ended by raising APIConnectionError.
C3_TransportFailureIsConnectivityError ==
    (pc = "done" /\ Len(sent) > 0 /\ response = NoResponse)
    => result = Raises("APIConnectionError")

\* C4: for a name whose domain is a range and an integer value,
\* set_parameter passes validation (issues its request) if and only if
\* min <= value <= max, and otherwise has ended with ValueError.
C4_RangeInclusive ==
    (InSetParameter
       /\ Registered(call.name)
       /\ VALID_PARAMETERS[call.name].type = "tuple"
       /\ call.value.t = "int")
    => LET d == VALID_PARAMETERS[call.name]
           inside == d.min <= call.value.n /\ call.value.n <= d.max
       IN /\ inside => Len(sent) = 1
          /\ ~inside => (pc = "done" /\ sent = <<>> /\ result = Raises("ValueError"))

\* set_parameter("Frozen_Speed", 3450), the upper end of its range, has
\* issued its request.
C4_Witness ==
    /\ pc = "awaiting"
    /\ call = Call("set_parameter", "Frozen_Speed", IntV(3450))
    /\ Len(sent) = 1

\* C5: set_parameter("Language", v) passes validation (issues its
\* request) exactly when v is the integer 0 of the table.
C5_LanguageSinglePoint ==
    (InSetParameter /\ call.name = "Language")
    => ((Len(sent) = 1) <=> (IsNumber(call.value) /\ Tenths(call.value) = 0))

\* C6: a read operation that returned a result did so on a response with
\* status 200 and a decoded body.
C6_ReadsRequireStatus200 ==
    (pc = "done" /\ call.op \in ReadOps /\ result.kind = "return")
    => (response.status = 200 /\ response.decode = "ok")

\* The fields of the record the call decodes.
FieldsOf(op) == IF op = "get_data" THEN PumpDataFields ELSE PumpSettingsFields

\* The payload lacks an expected key, or holds a string that is no
\* integer numeral where an integer is expected.
Malformed(fields, data) ==
    \E i \in 1..Len(fields) :
       \/ fields[i].key \notin DOMAIN data
       \/ /\ fields[i].conv = "int"
          /\ data[fields[i].key].t = "str"
          /\ ~IsIntLiteral(data[fields[i].key].s)

\* C7: get_data or get_settings on a decoded body that lacks an expected
\* key or holds a non-integer string in an integer field has ended with
\* KeyError or ValueError, not with APIConnectionError and not with a
\* record.
C7_DecodingErrorSurfaces ==
    (pc = "done"
       /\ call.op \in {"get_data", "get_settings"}
       /\ response.decode = "ok"
       /\ Malformed(FieldsOf(call.op), response.json))
    => /\ result.kind = "raise"
       /\ result.exc \in {"KeyError", "ValueError"}
       /\ result.exc # "APIConnectionError"

\* get_data on a payload whose CurrentTemperuture is "abc" has raised
\* ValueError.
C7_Witness ==
    /\ pc = "done"
    /\ call.op = "get_data"
    /\ response.decode = "ok"
    /\ "CurrentTemperuture" \in DOMAIN response.json
    /\ response.json["CurrentTemperuture"] = StrV("abc")
    /\ result = Raises("ValueError")

\* The call got past validation: every call but a set_parameter whose
\* validation raised.
PastValidation ==
    pc # "idle"
      /\ ~(call.op = "set_parameter" /\ Validate(call.name, call.value) # "ok")

\* C8 (state part): a call past validation has issued exactly one
\* request, and has a result or an exception once it has ended.
C8_OneRequest ==
    PastValidation
    => /\ Len(sent) = 1
       /\ pc = "done" => result.kind \in {"return", "raise"}

\* C8 (step part): the step that ends a call issues no further request,
\* and no step changes the client's host, endpoint URL or timeout.
C8_NoRetryStep ==
    /\ host' = host
    /\ api_url' = api_url
    /\ timeout' = timeout
    /\ (pc = "awaiting" => (pc' = "done" /\ sent' = sent))

\* C8: exactly one request per call past validation, no retry, and the
\* client's fields unchanged.
C8_OneRequestNoRetry == [](C8_OneRequest) /\ [][C8_NoRetryStep]_vars

\* A call whose transport timed out has ended with its single request.
C8_Witness ==
    /\ pc = "done"
    /\ call.op = "turn_on"
    /\ result = Raises("TimeoutError")
    /\ Len(sent) = 1

\* C9: set_parameter on a range-domain name with a value that is not an
\* int has ended with a validation exception and issued no request.
C9_NonIntegerRejected ==
    (InSetParameter
       /\ Registered(call.name)
       /\ VALID_PARAMETERS[call.name].type = "tuple"
       /\ call.value.t # "int")
    => /\ pc = "done"
       /\ sent = <<>>
       /\ result.kind = "raise"
       /\ result.exc \in ValidationErrors

\* The request set_speed(v) issues for an integer v.
SpeedRequests(v) ==
    {Request("POST",
             "http://" \o host \o "/cgi-bin/EpvCgi?name=SetCurrentSpeed&val="
               \o ToString(v) \o "&type=set&time=" \o ToString(now)) :
       now \in 0..MaxTime}

\* C10: set_speed(v) has issued its request for every v, within or
\* outside [800, 3400], and ends with no validation exception, while
\* set_parameter("SetCurrentSpeed", v) with an integer v outside
\* [800, 3400] has issued none.
C10_SetSpeedUnvalidated ==
    /\ (pc # "idle" /\ call.op = "set_speed")
       => /\ Len(sent) = 1
          /\ call.value.t = "int" => sent[1] \in SpeedRequests(call.value.n)
          /\ result.exc \notin ValidationErrors
    /\ (InSetParameter
          /\ call.name = "SetCurrentSpeed"
          /\ call.value.t = "int"
          /\ (call.value.n < 800 \/ call.value.n > 3400))
       => (pc = "done" /\ sent = <<>>)

\* set_speed(5000) has issued its request.
C10_Witness ==
    /\ pc = "awaiting"
    /\ call = Call("set_speed", "SetCurrentSpeed", IntV(5000))
    /\ Len(sent) = 1
    /\ sent[1] \in SpeedRequests(5000)

====
